---------------------------- MODULE Spec2Model ----------------------------
(***************************************************************************)
(* Model of the legal-citation recogniser of src/main.py.                  *)
(*                                                                         *)
(* Strings are sequences of Unicode code points (ord(c) of every           *)
(* character), so that str.lower, str.strip, str.split, int(), str(),      *)
(* re.fullmatch and re.split are modelled by what they do to the           *)
(* characters.  Python's None is the value None below, which is no string. *)
(***************************************************************************)
EXTENDS Integers, Sequences, FiniteSets, TLC

VARIABLES
    pc,             \* position of the call being modelled
    chunk,          \* parse_values: the `chunk` argument
    expand_hyphens, \* parse_values: the `expand_hyphens` argument
    values,         \* parse_values: the returned list
    matches,        \* detect_links: the local list `matches`
    raw_items,      \* detect_links: `raw_items` as built by step 3
    pruned,         \* detect_links: `raw_items` after prune_less_specific
    result,         \* detect_links: the returned list of ParsedRef
    text,           \* detect_links: the `text` argument
    text_norm,      \* detect_links: the local `text_norm` of step 1
    text_norm2,     \* `text_norm` of a second call, made on text_norm
    codex_aliases,  \* the alias dictionary (app.state.codex_aliases)
    LAW_NAMED,      \* build_alias_maps: the alternatives of LAW_NAMED, in order
    calls,          \* number of calls of detect_links so far
    builds          \* number of times compile_patterns returned the patterns

call_vars == <<chunk, expand_hyphens, values, matches, raw_items, pruned, result>>
text_vars == <<text, text_norm, text_norm2>>
alias_vars == <<codex_aliases, LAW_NAMED, calls, builds>>

vars == <<pc, chunk, expand_hyphens, values, matches, raw_items, pruned, result,
          text, text_norm, text_norm2, codex_aliases, LAW_NAMED, calls, builds>>

-----------------------------------------------------------------------------
(* Characters                                                              *)

None == <<-1>>

CH_TAB    == 9
CH_SPACE  == 32
CH_COMMA  == 44
CH_HYPHEN == 45
CH_DOT    == 46
CH_SLASH  == 47
CH_SEMI   == 59
CH_PLUS   == 43
CH_0      == 48
CY_a      == 1072   \* ord('а')
CY_ya     == 1103   \* ord('я')
CY_ie     == 1077   \* ord('е')
CY_io     == 1105   \* ord('ё')
CY_IO     == 1025   \* ord('Ё')

\* [a-z], [A-Z], [а-я], [А-Я] as sets of code points
LatLower == 97..122
LatUpper == 65..90
CyrLower == CY_a..CY_ya
CyrUpper == 1040..1071

\* \s of a str pattern and the characters str.strip() removes: the
\* whitespace of Unicode
WhiteSpace ==
    {
     9, 10, 11, 12, 13, 28, 29, 30, 31, 32, 133, 160, 5760, 8192, 8193,
     8194, 8195, 8196, 8197, 8198, 8199, 8200, 8201, 8202, 8232, 8233, 8239,
     8287, 12288 }

IsSpace(c) == c \in WhiteSpace

\* the decimal digits of Unicode (\d of a str pattern, the digits of int())
\* come in runs of ten, 0 to 9: the first code point of every run
DigitZeros ==
    {
     48, 1632, 1776, 1984, 2406, 2534, 2662, 2790, 2918, 3046, 3174, 3302,
     3430, 3558, 3664, 3792, 3872, 4160, 4240, 6112, 6160, 6470, 6608, 6784,
     6800, 6992, 7088, 7232, 7248, 42528, 43216, 43264, 43472, 43504, 43600,
     44016, 65296, 66720, 68912, 69734, 69872, 69942, 70096, 70384, 70736,
     70864, 71248, 71360, 71472, 71904, 72016, 72784, 73040, 73120, 92768,
     92864, 93008, 120782, 120792, 120802, 120812, 120822, 123200, 123632,
     125264, 130032 }

IsDigit(c) == \E z \in DigitZeros : c \in z..(z + 9)

\* the value of the decimal digit c
DigitOf(c) == c - (CHOOSE z \in DigitZeros : c \in z..(z + 9))

\* whether c is in one of the ranges <<first, last>> of R
InRanges(c, R) == \E r \in R : c \in r[1]..r[2]

\* str.lower() where it maps one character to another one: the runs
\* <<first, last, step, delta>>, every step-th character from first to last
\* being mapped to the character delta further on
LowerRuns ==
    {
     <<65, 90, 1, 32>>, <<192, 214, 1, 32>>, <<216, 222, 1, 32>>, <<256,
     302, 2, 1>>, <<306, 310, 2, 1>>, <<313, 327, 2, 1>>, <<330, 374, 2,
     1>>, <<376, 376, 1, -121>>, <<377, 381, 2, 1>>, <<385, 385, 1, 210>>,
     <<386, 388, 2, 1>>, <<390, 390, 1, 206>>, <<391, 391, 1, 1>>, <<393,
     394, 1, 205>>, <<395, 395, 1, 1>>, <<398, 398, 1, 79>>, <<399, 399, 1,
     202>>, <<400, 400, 1, 203>>, <<401, 401, 1, 1>>, <<403, 403, 1, 205>>,
     <<404, 404, 1, 207>>, <<406, 406, 1, 211>>, <<407, 407, 1, 209>>,
     <<408, 408, 1, 1>>, <<412, 412, 1, 211>>, <<413, 413, 1, 213>>, <<415,
     415, 1, 214>>, <<416, 420, 2, 1>>, <<422, 422, 1, 218>>, <<423, 423, 1,
     1>>, <<425, 425, 1, 218>>, <<428, 428, 1, 1>>, <<430, 430, 1, 218>>,
     <<431, 431, 1, 1>>, <<433, 434, 1, 217>>, <<435, 437, 2, 1>>, <<439,
     439, 1, 219>>, <<440, 440, 1, 1>>, <<444, 444, 1, 1>>, <<452, 452, 1,
     2>>, <<453, 453, 1, 1>>, <<455, 455, 1, 2>>, <<456, 456, 1, 1>>, <<458,
     458, 1, 2>>, <<459, 475, 2, 1>>, <<478, 494, 2, 1>>, <<497, 497, 1,
     2>>, <<498, 500, 2, 1>>, <<502, 502, 1, -97>>, <<503, 503, 1, -56>>,
     <<504, 542, 2, 1>>, <<544, 544, 1, -130>>, <<546, 562, 2, 1>>, <<570,
     570, 1, 10795>>, <<571, 571, 1, 1>>, <<573, 573, 1, -163>>, <<574, 574,
     1, 10792>>, <<577, 577, 1, 1>>, <<579, 579, 1, -195>>, <<580, 580, 1,
     69>>, <<581, 581, 1, 71>>, <<582, 590, 2, 1>>, <<880, 882, 2, 1>>,
     <<886, 886, 1, 1>>, <<895, 895, 1, 116>>, <<902, 902, 1, 38>>, <<904,
     906, 1, 37>>, <<908, 908, 1, 64>>, <<910, 911, 1, 63>>, <<913, 929, 1,
     32>>, <<931, 939, 1, 32>>, <<975, 975, 1, 8>>, <<984, 1006, 2, 1>>,
     <<1012, 1012, 1, -60>>, <<1015, 1015, 1, 1>>, <<1017, 1017, 1, -7>>,
     <<1018, 1018, 1, 1>>, <<1021, 1023, 1, -130>>, <<1024, 1039, 1, 80>>,
     <<1040, 1071, 1, 32>>, <<1120, 1152, 2, 1>>, <<1162, 1214, 2, 1>>,
     <<1216, 1216, 1, 15>>, <<1217, 1229, 2, 1>>, <<1232, 1326, 2, 1>>,
     <<1329, 1366, 1, 48>>, <<4256, 4293, 1, 7264>>, <<4295, 4295, 1,
     7264>>, <<4301, 4301, 1, 7264>>, <<5024, 5103, 1, 38864>>, <<5104,
     5109, 1, 8>>, <<7312, 7354, 1, -3008>>, <<7357, 7359, 1, -3008>>,
     <<7680, 7828, 2, 1>>, <<7838, 7838, 1, -7615>>, <<7840, 7934, 2, 1>>,
     <<7944, 7951, 1, -8>>, <<7960, 7965, 1, -8>>, <<7976, 7983, 1, -8>>,
     <<7992, 7999, 1, -8>>, <<8008, 8013, 1, -8>>, <<8025, 8031, 2, -8>>,
     <<8040, 8047, 1, -8>>, <<8072, 8079, 1, -8>>, <<8088, 8095, 1, -8>>,
     <<8104, 8111, 1, -8>>, <<8120, 8121, 1, -8>>, <<8122, 8123, 1, -74>>,
     <<8124, 8124, 1, -9>>, <<8136, 8139, 1, -86>>, <<8140, 8140, 1, -9>>,
     <<8152, 8153, 1, -8>>, <<8154, 8155, 1, -100>>, <<8168, 8169, 1, -8>>,
     <<8170, 8171, 1, -112>>, <<8172, 8172, 1, -7>>, <<8184, 8185, 1,
     -128>>, <<8186, 8187, 1, -126>>, <<8188, 8188, 1, -9>>, <<8486, 8486,
     1, -7517>>, <<8490, 8490, 1, -8383>>, <<8491, 8491, 1, -8262>>, <<8498,
     8498, 1, 28>>, <<8544, 8559, 1, 16>>, <<8579, 8579, 1, 1>>, <<9398,
     9423, 1, 26>>, <<11264, 11311, 1, 48>>, <<11360, 11360, 1, 1>>,
     <<11362, 11362, 1, -10743>>, <<11363, 11363, 1, -3814>>, <<11364,
     11364, 1, -10727>>, <<11367, 11371, 2, 1>>, <<11373, 11373, 1,
     -10780>>, <<11374, 11374, 1, -10749>>, <<11375, 11375, 1, -10783>>,
     <<11376, 11376, 1, -10782>>, <<11378, 11378, 1, 1>>, <<11381, 11381, 1,
     1>>, <<11390, 11391, 1, -10815>>, <<11392, 11490, 2, 1>>, <<11499,
     11501, 2, 1>>, <<11506, 11506, 1, 1>>, <<42560, 42604, 2, 1>>, <<42624,
     42650, 2, 1>>, <<42786, 42798, 2, 1>>, <<42802, 42862, 2, 1>>, <<42873,
     42875, 2, 1>>, <<42877, 42877, 1, -35332>>, <<42878, 42886, 2, 1>>,
     <<42891, 42891, 1, 1>>, <<42893, 42893, 1, -42280>>, <<42896, 42898, 2,
     1>>, <<42902, 42920, 2, 1>>, <<42922, 42922, 1, -42308>>, <<42923,
     42923, 1, -42319>>, <<42924, 42924, 1, -42315>>, <<42925, 42925, 1,
     -42305>>, <<42926, 42926, 1, -42308>>, <<42928, 42928, 1, -42258>>,
     <<42929, 42929, 1, -42282>>, <<42930, 42930, 1, -42261>>, <<42931,
     42931, 1, 928>>, <<42932, 42946, 2, 1>>, <<42948, 42948, 1, -48>>,
     <<42949, 42949, 1, -42307>>, <<42950, 42950, 1, -35384>>, <<42951,
     42953, 2, 1>>, <<42960, 42960, 1, 1>>, <<42966, 42968, 2, 1>>, <<42997,
     42997, 1, 1>>, <<65313, 65338, 1, 32>>, <<66560, 66599, 1, 40>>,
     <<66736, 66771, 1, 40>>, <<66928, 66938, 1, 39>>, <<66940, 66954, 1,
     39>>, <<66956, 66962, 1, 39>>, <<66964, 66965, 1, 39>>, <<68736, 68786,
     1, 64>>, <<71840, 71871, 1, 32>>, <<93760, 93791, 1, 32>>, <<125184,
     125217, 1, 34>> }

InRun(c, r) == c \in r[1]..r[2] /\ (c - r[1]) % r[3] = 0

ToLower(c) ==
    IF \E r \in LowerRuns : InRun(c, r)
    THEN c + (CHOOSE r \in LowerRuns : InRun(c, r))[4]
    ELSE c

\* str.lower() of the one-character string of c; 304 (capital I with dot
\* above) is the one character that becomes two
LowerCh(c) == IF c = 304 THEN <<105, 775>> ELSE <<ToLower(c)>>

\* the characters str.lower() skips when it looks around a capital sigma
CaseIgnorable ==
    {
     <<39, 39>>, <<46, 46>>, <<58, 58>>, <<94, 94>>, <<96, 96>>, <<168,
     168>>, <<173, 173>>, <<175, 175>>, <<180, 180>>, <<183, 184>>, <<688,
     879>>, <<884, 885>>, <<890, 890>>, <<900, 901>>, <<903, 903>>, <<1155,
     1161>>, <<1369, 1369>>, <<1375, 1375>>, <<1425, 1469>>, <<1471, 1471>>,
     <<1473, 1474>>, <<1476, 1477>>, <<1479, 1479>>, <<1524, 1524>>, <<1536,
     1541>>, <<1552, 1562>>, <<1564, 1564>>, <<1600, 1600>>, <<1611, 1631>>,
     <<1648, 1648>>, <<1750, 1757>>, <<1759, 1768>>, <<1770, 1773>>, <<1807,
     1807>>, <<1809, 1809>>, <<1840, 1866>>, <<1958, 1968>>, <<2027, 2037>>,
     <<2042, 2042>>, <<2045, 2045>>, <<2070, 2093>>, <<2137, 2139>>, <<2184,
     2184>>, <<2192, 2193>>, <<2200, 2207>>, <<2249, 2306>>, <<2362, 2362>>,
     <<2364, 2364>>, <<2369, 2376>>, <<2381, 2381>>, <<2385, 2391>>, <<2402,
     2403>>, <<2417, 2417>>, <<2433, 2433>>, <<2492, 2492>>, <<2497, 2500>>,
     <<2509, 2509>>, <<2530, 2531>>, <<2558, 2558>>, <<2561, 2562>>, <<2620,
     2620>>, <<2625, 2626>>, <<2631, 2632>>, <<2635, 2637>>, <<2641, 2641>>,
     <<2672, 2673>>, <<2677, 2677>>, <<2689, 2690>>, <<2748, 2748>>, <<2753,
     2757>>, <<2759, 2760>>, <<2765, 2765>>, <<2786, 2787>>, <<2810, 2815>>,
     <<2817, 2817>>, <<2876, 2876>>, <<2879, 2879>>, <<2881, 2884>>, <<2893,
     2893>>, <<2901, 2902>>, <<2914, 2915>>, <<2946, 2946>>, <<3008, 3008>>,
     <<3021, 3021>>, <<3072, 3072>>, <<3076, 3076>>, <<3132, 3132>>, <<3134,
     3136>>, <<3142, 3144>>, <<3146, 3149>>, <<3157, 3158>>, <<3170, 3171>>,
     <<3201, 3201>>, <<3260, 3260>>, <<3263, 3263>>, <<3270, 3270>>, <<3276,
     3277>>, <<3298, 3299>>, <<3328, 3329>>, <<3387, 3388>>, <<3393, 3396>>,
     <<3405, 3405>>, <<3426, 3427>>, <<3457, 3457>>, <<3530, 3530>>, <<3538,
     3540>>, <<3542, 3542>>, <<3633, 3633>>, <<3636, 3642>>, <<3654, 3662>>,
     <<3761, 3761>>, <<3764, 3772>>, <<3782, 3782>>, <<3784, 3789>>, <<3864,
     3865>>, <<3893, 3893>>, <<3895, 3895>>, <<3897, 3897>>, <<3953, 3966>>,
     <<3968, 3972>>, <<3974, 3975>>, <<3981, 3991>>, <<3993, 4028>>, <<4038,
     4038>>, <<4141, 4144>>, <<4146, 4151>>, <<4153, 4154>>, <<4157, 4158>>,
     <<4184, 4185>>, <<4190, 4192>>, <<4209, 4212>>, <<4226, 4226>>, <<4229,
     4230>>, <<4237, 4237>>, <<4253, 4253>>, <<4348, 4348>>, <<4957, 4959>>,
     <<5906, 5908>>, <<5938, 5939>>, <<5970, 5971>>, <<6002, 6003>>, <<6068,
     6069>>, <<6071, 6077>>, <<6086, 6086>>, <<6089, 6099>>, <<6103, 6103>>,
     <<6109, 6109>>, <<6155, 6159>>, <<6211, 6211>>, <<6277, 6278>>, <<6313,
     6313>>, <<6432, 6434>>, <<6439, 6440>>, <<6450, 6450>>, <<6457, 6459>>,
     <<6679, 6680>>, <<6683, 6683>>, <<6742, 6742>>, <<6744, 6750>>, <<6752,
     6752>>, <<6754, 6754>>, <<6757, 6764>>, <<6771, 6780>>, <<6783, 6783>>,
     <<6823, 6823>>, <<6832, 6862>>, <<6912, 6915>>, <<6964, 6964>>, <<6966,
     6970>>, <<6972, 6972>>, <<6978, 6978>>, <<7019, 7027>>, <<7040, 7041>>,
     <<7074, 7077>>, <<7080, 7081>>, <<7083, 7085>>, <<7142, 7142>>, <<7144,
     7145>>, <<7149, 7149>>, <<7151, 7153>>, <<7212, 7219>>, <<7222, 7223>>,
     <<7288, 7293>>, <<7376, 7378>>, <<7380, 7392>>, <<7394, 7400>>, <<7405,
     7405>>, <<7412, 7412>>, <<7416, 7417>>, <<7468, 7530>>, <<7544, 7544>>,
     <<7579, 7679>>, <<8125, 8125>>, <<8127, 8129>>, <<8141, 8143>>, <<8157,
     8159>>, <<8173, 8175>>, <<8189, 8190>>, <<8203, 8207>>, <<8216, 8217>>,
     <<8228, 8228>>, <<8231, 8231>>, <<8234, 8238>>, <<8288, 8292>>, <<8294,
     8303>>, <<8305, 8305>>, <<8319, 8319>>, <<8336, 8348>>, <<8400, 8432>>,
     <<11388, 11389>>, <<11503, 11505>>, <<11631, 11631>>, <<11647, 11647>>,
     <<11744, 11775>>, <<11823, 11823>>, <<12293, 12293>>, <<12330, 12333>>,
     <<12337, 12341>>, <<12347, 12347>>, <<12441, 12446>>, <<12540, 12542>>,
     <<40981, 40981>>, <<42232, 42237>>, <<42508, 42508>>, <<42607, 42610>>,
     <<42612, 42621>>, <<42623, 42623>>, <<42652, 42655>>, <<42736, 42737>>,
     <<42752, 42785>>, <<42864, 42864>>, <<42888, 42890>>, <<42994, 42996>>,
     <<43000, 43001>>, <<43010, 43010>>, <<43014, 43014>>, <<43019, 43019>>,
     <<43045, 43046>>, <<43052, 43052>>, <<43204, 43205>>, <<43232, 43249>>,
     <<43263, 43263>>, <<43302, 43309>>, <<43335, 43345>>, <<43392, 43394>>,
     <<43443, 43443>>, <<43446, 43449>>, <<43452, 43453>>, <<43471, 43471>>,
     <<43493, 43494>>, <<43561, 43566>>, <<43569, 43570>>, <<43573, 43574>>,
     <<43587, 43587>>, <<43596, 43596>>, <<43632, 43632>>, <<43644, 43644>>,
     <<43696, 43696>>, <<43698, 43700>>, <<43703, 43704>>, <<43710, 43711>>,
     <<43713, 43713>>, <<43741, 43741>>, <<43756, 43757>>, <<43763, 43764>>,
     <<43766, 43766>>, <<43867, 43871>>, <<43881, 43883>>, <<44005, 44005>>,
     <<44008, 44008>>, <<44013, 44013>>, <<64286, 64286>>, <<64434, 64450>>,
     <<65024, 65039>>, <<65043, 65043>>, <<65056, 65071>>, <<65106, 65106>>,
     <<65109, 65109>>, <<65279, 65279>>, <<65287, 65287>>, <<65294, 65294>>,
     <<65306, 65306>>, <<65342, 65342>>, <<65344, 65344>>, <<65392, 65392>>,
     <<65438, 65439>>, <<65507, 65507>>, <<65529, 65531>>, <<66045, 66045>>,
     <<66272, 66272>>, <<66422, 66426>>, <<67456, 67461>>, <<67463, 67504>>,
     <<67506, 67514>>, <<68097, 68099>>, <<68101, 68102>>, <<68108, 68111>>,
     <<68152, 68154>>, <<68159, 68159>>, <<68325, 68326>>, <<68900, 68903>>,
     <<69291, 69292>>, <<69446, 69456>>, <<69506, 69509>>, <<69633, 69633>>,
     <<69688, 69702>>, <<69744, 69744>>, <<69747, 69748>>, <<69759, 69761>>,
     <<69811, 69814>>, <<69817, 69818>>, <<69821, 69821>>, <<69826, 69826>>,
     <<69837, 69837>>, <<69888, 69890>>, <<69927, 69931>>, <<69933, 69940>>,
     <<70003, 70003>>, <<70016, 70017>>, <<70070, 70078>>, <<70089, 70092>>,
     <<70095, 70095>>, <<70191, 70193>>, <<70196, 70196>>, <<70198, 70199>>,
     <<70206, 70206>>, <<70367, 70367>>, <<70371, 70378>>, <<70400, 70401>>,
     <<70459, 70460>>, <<70464, 70464>>, <<70502, 70508>>, <<70512, 70516>>,
     <<70712, 70719>>, <<70722, 70724>>, <<70726, 70726>>, <<70750, 70750>>,
     <<70835, 70840>>, <<70842, 70842>>, <<70847, 70848>>, <<70850, 70851>>,
     <<71090, 71093>>, <<71100, 71101>>, <<71103, 71104>>, <<71132, 71133>>,
     <<71219, 71226>>, <<71229, 71229>>, <<71231, 71232>>, <<71339, 71339>>,
     <<71341, 71341>>, <<71344, 71349>>, <<71351, 71351>>, <<71453, 71455>>,
     <<71458, 71461>>, <<71463, 71467>>, <<71727, 71735>>, <<71737, 71738>>,
     <<71995, 71996>>, <<71998, 71998>>, <<72003, 72003>>, <<72148, 72151>>,
     <<72154, 72155>>, <<72160, 72160>>, <<72193, 72202>>, <<72243, 72248>>,
     <<72251, 72254>>, <<72263, 72263>>, <<72273, 72278>>, <<72281, 72283>>,
     <<72330, 72342>>, <<72344, 72345>>, <<72752, 72758>>, <<72760, 72765>>,
     <<72767, 72767>>, <<72850, 72871>>, <<72874, 72880>>, <<72882, 72883>>,
     <<72885, 72886>>, <<73009, 73014>>, <<73018, 73018>>, <<73020, 73021>>,
     <<73023, 73029>>, <<73031, 73031>>, <<73104, 73105>>, <<73109, 73109>>,
     <<73111, 73111>>, <<73459, 73460>>, <<78896, 78904>>, <<92912, 92916>>,
     <<92976, 92982>>, <<92992, 92995>>, <<94031, 94031>>, <<94095, 94111>>,
     <<94176, 94177>>, <<94179, 94180>>, <<110576, 110579>>, <<110581,
     110587>>, <<110589, 110590>>, <<113821, 113822>>, <<113824, 113827>>,
     <<118528, 118573>>, <<118576, 118598>>, <<119143, 119145>>, <<119155,
     119170>>, <<119173, 119179>>, <<119210, 119213>>, <<119362, 119364>>,
     <<121344, 121398>>, <<121403, 121452>>, <<121461, 121461>>, <<121476,
     121476>>, <<121499, 121503>>, <<121505, 121519>>, <<122880, 122886>>,
     <<122888, 122904>>, <<122907, 122913>>, <<122915, 122916>>, <<122918,
     122922>>, <<123184, 123197>>, <<123566, 123566>>, <<123628, 123631>>,
     <<125136, 125142>>, <<125252, 125259>>, <<127995, 127999>>, <<917505,
     917505>>, <<917536, 917631>>, <<917760, 917999>> }

IsCaseIgnorable(c) == InRanges(c, CaseIgnorable)

\* the cased characters among those that are not case-ignorable
Cased ==
    {
     <<65, 90>>, <<97, 122>>, <<170, 170>>, <<181, 181>>, <<186, 186>>,
     <<192, 214>>, <<216, 246>>, <<248, 442>>, <<444, 447>>, <<452, 659>>,
     <<661, 687>>, <<880, 883>>, <<886, 887>>, <<891, 893>>, <<895, 895>>,
     <<902, 902>>, <<904, 906>>, <<908, 908>>, <<910, 929>>, <<931, 1013>>,
     <<1015, 1153>>, <<1162, 1327>>, <<1329, 1366>>, <<1376, 1416>>, <<4256,
     4293>>, <<4295, 4295>>, <<4301, 4301>>, <<4304, 4346>>, <<4349, 4351>>,
     <<5024, 5109>>, <<5112, 5117>>, <<7296, 7304>>, <<7312, 7354>>, <<7357,
     7359>>, <<7424, 7467>>, <<7531, 7543>>, <<7545, 7578>>, <<7680, 7957>>,
     <<7960, 7965>>, <<7968, 8005>>, <<8008, 8013>>, <<8016, 8023>>, <<8025,
     8025>>, <<8027, 8027>>, <<8029, 8029>>, <<8031, 8061>>, <<8064, 8116>>,
     <<8118, 8124>>, <<8126, 8126>>, <<8130, 8132>>, <<8134, 8140>>, <<8144,
     8147>>, <<8150, 8155>>, <<8160, 8172>>, <<8178, 8180>>, <<8182, 8188>>,
     <<8450, 8450>>, <<8455, 8455>>, <<8458, 8467>>, <<8469, 8469>>, <<8473,
     8477>>, <<8484, 8484>>, <<8486, 8486>>, <<8488, 8488>>, <<8490, 8493>>,
     <<8495, 8500>>, <<8505, 8505>>, <<8508, 8511>>, <<8517, 8521>>, <<8526,
     8526>>, <<8544, 8575>>, <<8579, 8580>>, <<9398, 9449>>, <<11264,
     11387>>, <<11390, 11492>>, <<11499, 11502>>, <<11506, 11507>>, <<11520,
     11557>>, <<11559, 11559>>, <<11565, 11565>>, <<42560, 42605>>, <<42624,
     42651>>, <<42786, 42863>>, <<42865, 42887>>, <<42891, 42894>>, <<42896,
     42954>>, <<42960, 42961>>, <<42963, 42963>>, <<42965, 42969>>, <<42997,
     42998>>, <<43002, 43002>>, <<43824, 43866>>, <<43872, 43880>>, <<43888,
     43967>>, <<64256, 64262>>, <<64275, 64279>>, <<65313, 65338>>, <<65345,
     65370>>, <<66560, 66639>>, <<66736, 66771>>, <<66776, 66811>>, <<66928,
     66938>>, <<66940, 66954>>, <<66956, 66962>>, <<66964, 66965>>, <<66967,
     66977>>, <<66979, 66993>>, <<66995, 67001>>, <<67003, 67004>>, <<68736,
     68786>>, <<68800, 68850>>, <<71840, 71903>>, <<93760, 93823>>,
     <<119808, 119892>>, <<119894, 119964>>, <<119966, 119967>>, <<119970,
     119970>>, <<119973, 119974>>, <<119977, 119980>>, <<119982, 119993>>,
     <<119995, 119995>>, <<119997, 120003>>, <<120005, 120069>>, <<120071,
     120074>>, <<120077, 120084>>, <<120086, 120092>>, <<120094, 120121>>,
     <<120123, 120126>>, <<120128, 120132>>, <<120134, 120134>>, <<120138,
     120144>>, <<120146, 120485>>, <<120488, 120512>>, <<120514, 120538>>,
     <<120540, 120570>>, <<120572, 120596>>, <<120598, 120628>>, <<120630,
     120654>>, <<120656, 120686>>, <<120688, 120712>>, <<120714, 120744>>,
     <<120746, 120770>>, <<120772, 120779>>, <<122624, 122633>>, <<122635,
     122654>>, <<125184, 125251>>, <<127280, 127305>>, <<127312, 127337>>,
     <<127344, 127369>> }

IsCased(c) == InRanges(c, Cased)

\* the nearest position at or before j, and at or after j, of a character
\* that is not case-ignorable (0 when there is none)
RECURSIVE PrevSolid(_, _)
PrevSolid(s, j) ==
    IF j < 1 THEN 0
    ELSE IF IsCaseIgnorable(s[j]) THEN PrevSolid(s, j - 1)
    ELSE j

RECURSIVE NextSolid(_, _)
NextSolid(s, j) ==
    IF j > Len(s) THEN 0
    ELSE IF IsCaseIgnorable(s[j]) THEN NextSolid(s, j + 1)
    ELSE j

\* whether the capital sigma at i ends a word: a cased character before it
\* and none after it
FinalSigmaAt(s, p, n) ==
    /\ p > 0 /\ IsCased(s[p])
    /\ n = 0 \/ ~IsCased(s[n])

FinalSigma(s, i) == FinalSigmaAt(s, PrevSolid(s, i - 1), NextSolid(s, i + 1))

\* what str.lower() makes of the character at i: 931 is the capital sigma,
\* 962 the final and 963 the other small sigma
LowerAt(s, i) ==
    IF s[i] = 931 THEN (IF FinalSigma(s, i) THEN <<962>> ELSE <<963>>)
    ELSE LowerCh(s[i])

RECURSIVE LowerFrom(_, _)
LowerFrom(s, i) == IF i > Len(s) THEN <<>> ELSE LowerAt(s, i) \o LowerFrom(s, i + 1)

\* str.lower()
Lower(s) == LowerFrom(s, 1)

\* str.strip()
RECURSIVE LStrip(_)
LStrip(s) == IF s /= <<>> /\ IsSpace(Head(s)) THEN LStrip(Tail(s)) ELSE s

RECURSIVE RStrip(_)
RStrip(s) ==
    IF s /= <<>> /\ IsSpace(s[Len(s)]) THEN RStrip(SubSeq(s, 1, Len(s) - 1)) ELSE s

Strip(s) == RStrip(LStrip(s))

\* `ch in s`
Contains(s, ch) == \E i \in 1..Len(s) : s[i] = ch

\* index of the first ch in s (0 when there is none)
RECURSIVE FirstIndexFrom(_, _, _)
FirstIndexFrom(s, ch, i) ==
    IF i > Len(s) THEN 0
    ELSE IF s[i] = ch THEN i
    ELSE FirstIndexFrom(s, ch, i + 1)

FirstIndex(s, ch) == FirstIndexFrom(s, ch, 1)

\* s.split(sep) for a one-character separator
RECURSIVE SplitChar(_, _)
SplitChar(s, sep) ==
    LET i == FirstIndex(s, sep) IN
    IF i = 0 THEN <<s>>
    ELSE <<SubSeq(s, 1, i - 1)>> \o SplitChar(SubSeq(s, i + 1, Len(s)), sep)

\* s.split(sep, 1)
SplitFirst(s, sep) ==
    LET i == FirstIndex(s, sep) IN
    IF i = 0 THEN <<s>>
    ELSE <<SubSeq(s, 1, i - 1), SubSeq(s, i + 1, Len(s))>>

\* sep.join(parts)
RECURSIVE Join(_, _)
Join(parts, sep) ==
    IF parts = <<>> THEN <<>>
    ELSE IF Len(parts) = 1 THEN parts[1]
    ELSE parts[1] \o <<sep>> \o Join(Tail(parts), sep)

\* the whitespace int() allows around the number: that of Unicode but for
\* the separators 28..31
IsIntSpace(c) == IsSpace(c) /\ c \notin 28..31

RECURSIVE IntLStrip(_)
IntLStrip(s) == IF s /= <<>> /\ IsIntSpace(Head(s)) THEN IntLStrip(Tail(s)) ELSE s

RECURSIVE IntRStrip(_)
IntRStrip(s) ==
    IF s /= <<>> /\ IsIntSpace(s[Len(s)]) THEN IntRStrip(SubSeq(s, 1, Len(s) - 1)) ELSE s

IntStrip(s) == IntRStrip(IntLStrip(s))

\* a sign at the head of t removed
Unsigned(t) == IF t /= <<>> /\ t[1] \in {CH_HYPHEN, CH_PLUS} THEN Tail(t) ELSE t

\* int(x): optional surrounding whitespace, optional sign, decimal digits with
\* single underscores between them; anything else raises ValueError
IntBody(x) == Unsigned(IntStrip(x))

\* sys.get_int_max_str_digits(): int() refuses a string of more digits
MAX_STR_DIGITS == 4300

\* digits, and underscores (95) each between two digits; the digits, leading
\* zeros among them, are no more than MAX_STR_DIGITS
DigitsValid(d) ==
    /\ d /= <<>>
    /\ Len(SelectSeq(d, LAMBDA c : c /= 95)) <= MAX_STR_DIGITS
    /\ \A i \in 1..Len(d) :
        \/ IsDigit(d[i])
        \/ /\ d[i] = 95
           /\ 1 < i /\ i < Len(d)
           /\ IsDigit(d[i - 1]) /\ IsDigit(d[i + 1])

IntValid(x) == DigitsValid(IntBody(x))

RECURSIVE DigitsValue(_)
DigitsValue(d) ==
    IF d = <<>> THEN 0
    ELSE IF d[Len(d)] = 95 THEN DigitsValue(SubSeq(d, 1, Len(d) - 1))
    ELSE 10 * DigitsValue(SubSeq(d, 1, Len(d) - 1)) + DigitOf(d[Len(d)])

IntValue(x) ==
    IF IntStrip(x)[1] = CH_HYPHEN THEN 0 - DigitsValue(IntBody(x))
    ELSE DigitsValue(IntBody(x))

\* str(k) for an integer k
RECURSIVE NatStr(_)
NatStr(n) ==
    IF n < 10 THEN <<CH_0 + n>> ELSE NatStr(n \div 10) \o <<CH_0 + (n % 10)>>

IntStr(k) == IF k < 0 THEN <<CH_HYPHEN>> \o NatStr(0 - k) ELSE NatStr(k)

\* the values a function returns, and the exception it raises instead
Ret(v) == [raised |-> FALSE, val |-> v]
Raise  == [raised |-> TRUE, val |-> <<>>]

-----------------------------------------------------------------------------
(* Normalisation: src/main.py 67-98                                        *)

\* the items of QUOTE_CHARS and of DASH_CHARS, in the order of the dicts
QUOTE_CHARS ==
    << <<171, 34>>, <<187, 34>>, <<8220, 34>>, <<8221, 34>>,
       <<8222, 34>>, <<8223, 34>>, <<8242, 39>>, <<8218, 34>> >>
DASH_CHARS == << <<8211, CH_HYPHEN>>, <<8212, CH_HYPHEN>>, <<CH_HYPHEN, CH_HYPHEN>> >>

\* s.replace(a, b) for one-character a and b
Replace(s, a, b) == [i \in 1..Len(s) |-> IF s[i] = a THEN b ELSE s[i]]

\* for a, b in table.items(): s = s.replace(a, b)
RECURSIVE ReplaceItems(_, _)
ReplaceItems(s, table) ==
    IF table = <<>> THEN s
    ELSE ReplaceItems(Replace(s, Head(table)[1], Head(table)[2]), Tail(table))

\* [ \t]
IsBlank(c) == c \in {CH_SPACE, CH_TAB}

\* the end (exclusive) of the run of blanks that starts at i
RECURSIVE BlankRunEnd(_, _)
BlankRunEnd(s, i) ==
    IF i <= Len(s) /\ IsBlank(s[i]) THEN BlankRunEnd(s, i + 1) ELSE i

\* the pattern [ \t]{2} in place of [ \t]{2,}: two blanks at a time
RECURSIVE SqueezeFrom_Pairs(_, _)
SqueezeFrom_Pairs(s, i) ==
    IF i > Len(s) THEN <<>>
    ELSE IF BlankRunEnd(s, i) - i >= 2
         THEN <<CH_SPACE>> \o SqueezeFrom_Pairs(s, i + 2)
         ELSE <<s[i]>> \o SqueezeFrom_Pairs(s, i + 1)

\* re.sub(r"[ \t]{2,}", " ", s) from position i on: the scan replaces each
\* maximal run of two or more blanks and copies every other character
RECURSIVE SqueezeFrom(_, _)
SqueezeFrom(s, i) ==
    IF i > Len(s) THEN <<>>
    ELSE IF BlankRunEnd(s, i) - i >= 2
         THEN <<CH_SPACE>> \o SqueezeFrom(s, BlankRunEnd(s, i))
         ELSE <<s[i]>> \o SqueezeFrom(s, i + 1)

normalize_text(s) == SqueezeFrom(ReplaceItems(ReplaceItems(s, QUOTE_CHARS), DASH_CHARS), 1)

-----------------------------------------------------------------------------
(* Value parsing: src/main.py 226-358                                      *)

\* re.fullmatch(r"[A-Za-zА-Яа-яё]", s)
_is_letter(s) ==
    /\ Len(s) = 1
    /\ s[1] \in LatUpper \union LatLower \union CyrUpper \union CyrLower \union {CY_io}

\* is_lat of _expand_letter_range: re.fullmatch(r"[a-z]", ch)
is_lat(ch) == Len(ch) = 1 /\ ch[1] \in LatLower

\* list.insert(i, x) with a 0-based i
ListInsert(l, i, x) == SubSeq(l, 1, i) \o <<x>> \o SubSeq(l, i + 1, Len(l))

\* list.index(x), 0-based; -1 stands for ValueError
ListIndex(l, x) == FirstIndex(l, x) - 1

\* alphabet of _expand_letter_range, a list of one-character strings
alphabet(ch) ==
    IF is_lat(ch) THEN [i \in 1..26 |-> <<96 + i>>]
    ELSE
        LET rus == [i \in 1..(CY_ya - CY_a + 1) |-> <<CY_a + i - 1>>] IN
        IF ~Contains(rus, <<CY_io>>)
        THEN ListInsert(rus, ListIndex(rus, <<CY_ie>>) + 1, <<CY_io>>)
        ELSE rus

_expand_letter_range(a, b) ==
    LET a0 == Lower(a)
        b0 == Lower(b)
    IN
    IF ~(_is_letter(a0) /\ _is_letter(b0)) THEN <<a, b>>
    ELSE IF is_lat(a0) /= is_lat(b0) THEN <<a, b>>
    ELSE
        LET alpha == alphabet(a0)
            ia0 == ListIndex(alpha, a0)
            ib0 == ListIndex(alpha, b0)
        IN
        IF ia0 < 0 \/ ib0 < 0 THEN <<a, b>>
        ELSE
            LET ia == IF ib0 < ia0 THEN ib0 ELSE ia0
                ib == IF ib0 < ia0 THEN ia0 ELSE ib0
            IN SubSeq(alpha, ia + 1, ib + 1)

\* parse_levels of _expand_numeric_range: [int(t) for t in x.split(".")]
parse_levels_ok(x) ==
    LET ts == SplitChar(x, CH_DOT) IN \A i \in 1..Len(ts) : IntValid(ts[i])

parse_levels(x) ==
    LET ts == SplitChar(x, CH_DOT) IN [i \in 1..Len(ts) |-> IntValue(ts[i])]

\* join_levels of _expand_numeric_range: ".".join(str(t) for t in levels)
join_levels(levels) == Join([i \in 1..Len(levels) |-> IntStr(levels[i])], CH_DOT)

\* mutant: range(lo, hi) in place of range(lo, hi + 1)
LevelRange_Exclusive(prefix, lo, hi) ==
    IF hi <= lo THEN <<>>
    ELSE [i \in 1..(hi - lo) |-> join_levels(prefix \o <<lo + i - 1>>)]

\* [f(k) for k in range(lo, hi + 1)] with f(k) = join_levels(prefix + [k])
LevelRange(prefix, lo, hi) ==
    IF hi < lo THEN <<>>
    ELSE [i \in 1..(hi - lo + 1) |-> join_levels(prefix \o <<lo + i - 1>>)]

Min(x, y) == IF y < x THEN y ELSE x
Max(x, y) == IF y < x THEN x ELSE y

_expand_numeric_range(a, b) ==
    IF _is_letter(a) \/ _is_letter(b) THEN Ret(<<a, b>>)
    ELSE IF ~parse_levels_ok(a) THEN Raise
    ELSE IF Contains(b, CH_DOT) /\ ~parse_levels_ok(b) THEN Raise
    ELSE IF ~Contains(b, CH_DOT) /\ ~IntValid(b) THEN Raise
    ELSE
        LET a_levels == parse_levels(a)
            b_dotted == Contains(b, CH_DOT)
            prefix   == SubSeq(a_levels, 1, Len(a_levels) - 1)
            a_last   == a_levels[Len(a_levels)]
        IN
        IF ~b_dotted /\ Contains(a, CH_DOT) THEN
            Ret(LevelRange(prefix, Min(a_last, IntValue(b)), Max(a_last, IntValue(b))))
        ELSE IF ~b_dotted THEN
            Ret(LevelRange(<<>>, Min(IntValue(a), IntValue(b)), Max(IntValue(a), IntValue(b))))
        ELSE
            LET b_levels == parse_levels(b) IN
            IF /\ Len(a_levels) = Len(b_levels)
               /\ prefix = SubSeq(b_levels, 1, Len(b_levels) - 1)
            THEN Ret(LevelRange(prefix, Min(a_last, b_levels[Len(b_levels)]),
                                        Max(a_last, b_levels[Len(b_levels)])))
            ELSE Ret(<<a, b>>)


\* The separators of _split_by_commas_and_conj in the order of the regex's
\* alternation: ',', ';', 'и/или', 'либо', 'или', 'и'
Separators ==
    << <<CH_COMMA>>,
       <<CH_SEMI>>,
       <<1080, CH_SLASH, 1080, 1083, 1080>>,
       <<1083, 1080, 1073, 1086>>,
       <<1080, 1083, 1080>>,
       <<1080>> >>

\* the characters that the literal l of the pattern matches under
\* re.IGNORECASE: for the letters и, л, б, о the capital too, for о also the
\* narrow o (7298); the other literals are no letters
IgnoreCase(l) ==
    CASE l = 1080 -> {1048, 1080}
      [] l = 1083 -> {1051, 1083}
      [] l = 1073 -> {1041, 1073}
      [] l = 1086 -> {1054, 1086, 7298}
      [] OTHER -> {l}

\* whether `lit` matches s at position i under re.IGNORECASE
LitAt(s, i, lit) ==
    /\ i + Len(lit) - 1 <= Len(s)
    /\ \A k \in 1..Len(lit) : s[i + k - 1] \in IgnoreCase(lit[k])

\* the position after the run of whitespace that starts at i
RECURSIVE SkipSpace(_, _)
SkipSpace(s, i) == IF i <= Len(s) /\ IsSpace(s[i]) THEN SkipSpace(s, i + 1) ELSE i

\* the first alternative that matches at i (0 when none does)
RECURSIVE FirstSepFrom(_, _, _)
FirstSepFrom(s, i, n) ==
    IF n > Len(Separators) THEN 0
    ELSE IF LitAt(s, i, Separators[n]) THEN n
    ELSE FirstSepFrom(s, i, n + 1)

\* a match of r"\s*(?:,|;|и\/или|либо|или|и)\s*" that starts at i: the position
\* after it, or 0 when the pattern does not match at i
SepMatchEnd(s, i) ==
    LET k == SkipSpace(s, i)
        n == FirstSepFrom(s, k, 1)
    IN IF n = 0 THEN 0 ELSE SkipSpace(s, k + Len(Separators[n]))

\* re.split(pattern, s): scan for the leftmost match from i; `from` is where the
\* current part starts
RECURSIVE ReSplitFrom(_, _, _)
ReSplitFrom(s, i, from) ==
    IF i > Len(s) THEN <<SubSeq(s, from, Len(s))>>
    ELSE
        LET e == SepMatchEnd(s, i) IN
        IF e = 0 THEN ReSplitFrom(s, i + 1, from)
        ELSE <<SubSeq(s, from, i - 1)>> \o ReSplitFrom(s, e, e)

ReSplit(s) == ReSplitFrom(s, 1, 1)

\* [p for p in parts if p]
NonEmptyParts(parts) == SelectSeq(parts, LAMBDA p : p /= <<>>)

_split_by_commas_and_conj(s0) ==
    LET s == Strip(s0) IN
    IF s = <<>> THEN <<>>
    ELSE IF _is_letter(s) THEN <<s>>
    ELSE NonEmptyParts(ReSplit(s))

\* "убираем дубли, сохраняя порядок": the seen/uniq loop of parse_values
RECURSIVE Uniq(_)
Uniq(l) ==
    IF l = <<>> THEN <<>>
    ELSE
        LET init == Uniq(SubSeq(l, 1, Len(l) - 1))
            v    == l[Len(l)]
        IN IF Contains(init, v) THEN init ELSE Append(init, v)

\* the body of parse_values' loop for one part p: what it adds to `out`
ExpandPart(p0, expand) ==
    LET p == Strip(p0) IN
    IF Contains(p, CH_HYPHEN) /\ expand THEN
        LET ab == SplitFirst(p, CH_HYPHEN)
            a  == Strip(ab[1])
            b  == Strip(ab[2])
        IN
        IF _is_letter(a) /\ _is_letter(b) THEN Ret(_expand_letter_range(a, b))
        ELSE _expand_numeric_range(a, b)
    ELSE Ret(<<p>>)

\* out.extend(...): an exception of either part of the work ends the call
Extend(h, t) == IF h.raised \/ t.raised THEN Raise ELSE Ret(h.val \o t.val)

RECURSIVE ExpandParts(_, _)
ExpandParts(parts, expand) ==
    IF parts = <<>> THEN Ret(<<>>)
    ELSE Extend(ExpandPart(Head(parts), expand), ExpandParts(Tail(parts), expand))

\* the end of parse_values: the order-preserving removal of duplicates
UniqOf(out) == IF out.raised THEN Raise ELSE Ret(Uniq(out.val))

parse_values(c, expand) ==
    IF c = None \/ c = <<>> THEN Ret(<<>>)
    ELSE UniqOf(ExpandParts(_split_by_commas_and_conj(c), expand))

-----------------------------------------------------------------------------
(* Pruning and deduplication: src/main.py 415-445, 528-543                 *)

\* mutant: spans that only touch count as overlapping
spans_overlap_Touching(a, b) == ~(a[2] < b[1] \/ b[2] < a[1])

spans_overlap(a, b) == ~(a[2] <= b[1] \/ b[2] <= a[1])

\* the grouping key of prune_less_specific
GroupKey(it) == <<it.law_id, it.article, it.point>>

\* groups[key], as the positions of its items in `items`
GroupOf(items, key) == {i \in 1..Len(items) : GroupKey(items[i]) = key}

with_sub(items, key) == {i \in GroupOf(items, key) : items[i].subpoint /= None}
no_sub(items, key)   == {i \in GroupOf(items, key) : items[i].subpoint = None}

\* mutant: an item is dropped only for an item with a subpoint on the same span
to_drop_SameSpan(items) ==
    {a \in 1..Len(items) :
        /\ items[a].subpoint = None
        /\ \E b \in with_sub(items, GroupKey(items[a])) : items[a].span = items[b].span}

\* to_drop, holding positions in `items` where the code holds id(a)
to_drop(items) ==
    UNION { IF with_sub(items, key) = {} \/ no_sub(items, key) = {} THEN {}
            ELSE {a \in no_sub(items, key) :
                    \E b \in with_sub(items, key) :
                        spans_overlap(items[a].span, items[b].span)}
          : key \in {GroupKey(items[i]) : i \in 1..Len(items)} }

\* [x for x in items if id(x) not in drop]
RECURSIVE KeepFrom(_, _, _)
KeepFrom(items, drop, i) ==
    IF i > Len(items) THEN <<>>
    ELSE IF i \in drop THEN KeepFrom(items, drop, i + 1)
    ELSE <<items[i]>> \o KeepFrom(items, drop, i + 1)

prune_less_specific(items) == KeepFrom(items, to_drop(items), 1)

ParsedRef(it) ==
    [law_id |-> it.law_id, article |-> it.article,
     point |-> it.point, subpoint |-> it.subpoint]

\* mutant: the last occurrence of a tuple is kept instead of the first
RECURSIVE Dedup_KeepLast(_)
Dedup_KeepLast(items) ==
    IF items = <<>> THEN <<>>
    ELSE
        LET rest == Dedup_KeepLast(Tail(items))
            ref  == ParsedRef(Head(items))
        IN IF Contains(rest, ref) THEN rest ELSE <<ref>> \o rest

\* mutant: the `seen` test is missing
Dedup_NoSeen(items) == [i \in 1..Len(items) |-> ParsedRef(items[i])]

\* step 5 of detect_links: the seen/result loop
RECURSIVE Dedup(_)
Dedup(items) ==
    IF items = <<>> THEN <<>>
    ELSE
        LET init == Dedup(SubSeq(items, 1, Len(items) - 1))
            ref  == ParsedRef(items[Len(items)])
        IN IF Contains(init, ref) THEN init ELSE Append(init, ref)

-----------------------------------------------------------------------------
(* detect_links: src/main.py 473-543                                       *)

\* pats.values(): the patterns in the order compile_patterns returns them
PattOrder == [after |-> 1, before |-> 2, mid |-> 3]

\* matches.sort(key=lambda t: (t[0], t[1])): a stable sort
SpanLess(m, n) == m.st < n.st \/ (m.st = n.st /\ m.en < n.en)

RECURSIVE InsertSorted(_, _)
InsertSorted(sorted, m) ==
    IF sorted = <<>> THEN <<m>>
    ELSE IF SpanLess(m, sorted[Len(sorted)])
         THEN Append(InsertSorted(SubSeq(sorted, 1, Len(sorted) - 1), m),
                     sorted[Len(sorted)])
         ELSE Append(sorted, m)

RECURSIVE SortMatches(_)
SortMatches(ms) ==
    IF ms = <<>> THEN <<>>
    ELSE InsertSorted(SortMatches(SubSeq(ms, 1, Len(ms) - 1)), ms[Len(ms)])

\* `x or [None]`
OrNone(l) == IF l = <<>> THEN <<None>> ELSE l

\* mutant: articles are expanded like points
ArticleExpandHyphens_True == TRUE

\* expand_hyphens of the three parse_values calls
ArticleExpandHyphens == FALSE
PointExpandHyphens   == TRUE
SubpExpandHyphens    == TRUE

\* itertools.product(arts, pnts, subs) as raw items of match m
Product(m, arts, pnts, subs) ==
    [i \in 1..(Len(arts) * Len(pnts) * Len(subs)) |->
        [law_id   |-> m.law_id,
         article  |-> arts[((i - 1) \div (Len(pnts) * Len(subs))) + 1],
         point    |-> pnts[(((i - 1) \div Len(subs)) % Len(pnts)) + 1],
         subpoint |-> subs[((i - 1) % Len(subs)) + 1],
         span     |-> <<m.st, m.en>>]]

\* the raw items of match m from its three parsed lists
MatchProduct(m, art_vals, pnt_vals, sub_vals) ==
    IF art_vals.raised \/ pnt_vals.raised \/ sub_vals.raised THEN Raise
    ELSE Ret(Product(m, OrNone(art_vals.val), OrNone(pnt_vals.val), OrNone(sub_vals.val)))

\* the law_id of a match for which extract_law_id_from_match returns None
\* (every LID group empty or unmatched); a group name LID_<n> has no sign, so
\* no law_id is negative
NoLawId == -1

\* the body of the loop of step 3 for one match; a match without law_id is
\* passed over before any value is parsed
MatchItems(m) ==
    IF m.law_id = NoLawId THEN Ret(<<>>)
    ELSE
    MatchProduct(m, parse_values(m.article_vals, ArticleExpandHyphens),
                    parse_values(m.point_vals, PointExpandHyphens),
                    parse_values(m.subp_vals, SubpExpandHyphens))

RECURSIVE RawItems(_)
RawItems(ms) ==
    IF ms = <<>> THEN Ret(<<>>)
    ELSE Extend(MatchItems(Head(ms)), RawItems(Tail(ms)))

\* detect_links from the collected matches on: the locals it leaves behind and
\* the list it returns, or the exception of a parse_values call
Step5(sorted, raw, kept) ==
    [raised |-> FALSE, matches |-> sorted, raw_items |-> raw,
     pruned |-> kept, result |-> Dedup(kept)]

Step4(sorted, raw) ==
    IF raw.raised
    THEN [raised |-> TRUE, matches |-> sorted, raw_items |-> <<>>,
          pruned |-> <<>>, result |-> <<>>]
    ELSE Step5(sorted, raw.val, prune_less_specific(raw.val))

Step3(sorted) == Step4(sorted, RawItems(sorted))

detect_links(ms) == Step3(SortMatches(ms))

-----------------------------------------------------------------------------
(* Inputs                                                                  *)

MaxMatches == 3
MaxAtoms   == 3
MaxNum     == 3
MaxLevels  == 2

LAW_NK == 15
LAW_UK == 17

S_66       == <<54, 54>>
S_23       == <<50, 51>>
S_3_345    == <<51, 46, 51, 52, 53>>
S_43_2_6   == <<52, 51, 46, 50, 45, 54>>
S_pts      == <<51, 46, 51, 52, 53, 44, 32, 50, 51>>
S_abv      == <<1072, 44, 32, 1073, 32, 1080, 32, 1074>>
S_a_i      == <<1072, 45, 1080>>
S_i_i      == <<1080, 44, 32, 1080>>
S_1_3_5    == <<49, 45, 51, 45, 53>>

\* the captured fragments of a match: law, article_vals, point_vals, subp_vals
Citations ==
    { <<LAW_NK, S_66, S_pts, S_abv>>,
      <<LAW_NK, S_66, S_pts, None>>,
      <<LAW_NK, S_43_2_6, None, None>>,
      <<LAW_UK, S_66, S_3_345, S_a_i>>,
      <<LAW_UK, S_66, S_1_3_5, None>>,
      <<LAW_UK, S_66, S_43_2_6, S_i_i>>,
      <<NoLawId, S_66, S_1_3_5, None>> }

\* (m.start(), m.end()) of a match
Spans == { <<0, 2>>, <<1, 3>>, <<2, 4>>, <<3, 4>> }

\* patt_mid has no subp_vals group and always a point_vals group
MatchInputs ==
    { [patt |-> p, st |-> sp[1], en |-> sp[2], law_id |-> c[1],
       article_vals |-> c[2], point_vals |-> c[3], subp_vals |-> c[4]]
      : p \in DOMAIN PattOrder, sp \in Spans, c \in Citations }

MatchPossible(m) ==
    m.patt = "mid" => (m.subp_vals = None /\ m.point_vals /= None)

\* atoms of the value grammar: dotted integers and single letters
NumAtoms ==
    { join_levels(l) : l \in UNION { [1..n -> 0..MaxNum] : n \in 1..MaxLevels } }

LetterAtoms ==
    { <<c>> : c \in LatLower \union CyrLower
                    \union {CY_io, CY_IO, 65, 67, 1040, 1042, 1048} }

\* one range: two atoms joined by '-'
RangeChunks ==
    { a \o <<CH_HYPHEN>> \o b : a, b \in NumAtoms \union LetterAtoms }

ListAtoms  == { <<49>>, <<51, 46, 50>>, <<1072>>, <<1080>> }
Connectors == { <<44>>, <<59, 32>>, <<32, 1080, 32>>, <<32, 1083, 1080, 1073, 1086, 32>>, <<45>> }

RECURSIVE ChunksOf(_)
ChunksOf(n) ==
    IF n = 1 THEN ListAtoms
    ELSE { c \o k \o a : c \in ChunksOf(n - 1), k \in Connectors, a \in ListAtoms }

ExampleChunks ==
    { S_43_2_6, S_pts, S_abv, S_a_i, S_i_i, S_1_3_5,
      <<49, 44, 160, 50>>, <<49, 45, 160, 51>>, <<1633, 45, 1635>>,
      <<49, 45, 49, 95, 48>>,
      <<48, 49, 45, 48, 51>>, <<49, 48, 45, 49, 50>>, <<49, 46, 57, 45, 49, 49>>, <<51, 46, 52, 46, 49, 45, 51, 46, 52, 46, 53>>, <<49, 32, 45, 32, 51>>, <<>> }

Chunks ==
    RangeChunks \union ExampleChunks \union UNION { ChunksOf(n) : n \in 1..MaxAtoms }

-----------------------------------------------------------------------------
(* The recognition call                                                    *)

\* the variables of the text normalisation, where it is not modelled
NoText == text = None /\ text_norm = None /\ text_norm2 = None

\* the variables of the alias dictionary, where it is not modelled
NoAliases == codex_aliases = <<>> /\ LAW_NAMED = <<>> /\ calls = 0 /\ builds = 0

\* the variables of steps 2 to 5 and of parse_values, where they are not modelled
NoCall ==
    /\ chunk = None /\ expand_hyphens = TRUE /\ values = <<>>
    /\ matches = <<>> /\ raw_items = <<>> /\ pruned = <<>> /\ result = <<>>

Init ==
    /\ pc = "scan"
    /\ NoText /\ NoAliases
    /\ matches = <<>>
    /\ raw_items = <<>>
    /\ pruned = <<>>
    /\ result = <<>>
    /\ chunk = None
    /\ expand_hyphens = TRUE
    /\ values = <<>>

\* Two matches of one text.  patt_before starts at the law name, patt_after and
\* patt_mid at a keyword, so (for the aliases of the self tests, none of which
\* starts like a keyword) a match of patt_before starts where no other match
\* does.  patt_after without its subpoint part is patt_mid: where both match
\* from the same position they match the same text.
Compatible(n, m) ==
    /\ (n.patt = "before") /= (m.patt = "before") => n.st /= m.st
    /\ ({n.patt, m.patt} = {"after", "mid"} /\ n.st = m.st) =>
        /\ n.en = m.en
        /\ n.law_id = m.law_id
        /\ n.article_vals = m.article_vals
        /\ n.point_vals = m.point_vals
        /\ n.subp_vals = None /\ m.subp_vals = None

\* step 2 of detect_links: one more match of patt.finditer(text_norm); a
\* pattern's matches come in text order and do not overlap, and the patterns
\* are scanned one after the other
FindIter ==
    /\ pc = "scan"
    /\ Len(matches) < MaxMatches
    /\ \E m \in MatchInputs :
        /\ MatchPossible(m)
        /\ \A i \in 1..Len(matches) : Compatible(matches[i], m)
        /\ matches /= <<>> =>
            LET last == matches[Len(matches)] IN
            \/ PattOrder[last.patt] < PattOrder[m.patt]
            \/ last.patt = m.patt /\ last.en <= m.st
        /\ matches' = Append(matches, m)
    /\ UNCHANGED <<pc, chunk, expand_hyphens, values, raw_items, pruned, result>>
    /\ UNCHANGED <<text_vars, alias_vars>>

\* the rest of detect_links: the sort of step 2, then steps 3, 4 and 5
DetectLinks ==
    /\ pc = "scan"
    /\ \E r \in {detect_links(matches)} :
       /\ pc' = IF r.raised THEN "raised" ELSE "returned"
       /\ matches' = r.matches
       /\ raw_items' = r.raw_items
       /\ pruned' = r.pruned
       /\ result' = r.result
    /\ UNCHANGED <<chunk, expand_hyphens, values, text_vars, alias_vars>>

Next == FindIter \/ DetectLinks

Spec == Init /\ [][Next]_vars

-----------------------------------------------------------------------------
(* A call of parse_values on its own                                       *)

InitValues ==
    /\ pc = "call"
    /\ NoText /\ NoAliases
    /\ chunk \in Chunks
    /\ expand_hyphens \in BOOLEAN
    /\ values = <<>>
    /\ matches = <<>>
    /\ raw_items = <<>>
    /\ pruned = <<>>
    /\ result = <<>>

ParseValues ==
    /\ pc = "call"
    /\ \E r \in {parse_values(chunk, expand_hyphens)} :
       /\ pc' = IF r.raised THEN "raised" ELSE "returned"
       /\ values' = r.val
    /\ UNCHANGED <<chunk, expand_hyphens, matches, raw_items, pruned, result>>
    /\ UNCHANGED <<text_vars, alias_vars>>

NextValues == ParseValues

SpecValues == InitValues /\ [][NextValues]_vars

-----------------------------------------------------------------------------
(* build_alias_maps: src/main.py 127-212                                   *)
(* A dict is the sequence of its items in insertion order.  An alternative *)
(* of LAW_NAMED is named by the <<lid, alias>> whose pattern it is.        *)

\* lines 193-197: all_items, one (lid, alias) per alias, lid = int(lid_str)
RECURSIVE ItemsOf(_)
ItemsOf(aliases) ==
    IF aliases = <<>> THEN <<>>
    ELSE LET lid_str == Head(aliases)[1]
             names   == Head(aliases)[2]
         IN [i \in 1..Len(names) |-> <<IntValue(lid_str), names[i]>>]
            \o ItemsOf(Tail(aliases))

\* int(lid_str) raises ValueError for a key that is no integer
AllItems(aliases) ==
    IF \E i \in 1..Len(aliases) : ~IntValid(aliases[i][1]) THEN Raise
    ELSE Ret(ItemsOf(aliases))

\* line 198: all_items.sort(key=lambda x: len(x[1]), reverse=True), which
\* keeps the items of equal length in their order
RECURSIVE InsertByLen(_, _)
InsertByLen(sorted, x) ==
    IF sorted = <<>> THEN <<x>>
    ELSE IF Len(sorted[Len(sorted)][2]) < Len(x[2])
         THEN Append(InsertByLen(SubSeq(sorted, 1, Len(sorted) - 1), x),
                     sorted[Len(sorted)])
         ELSE Append(sorted, x)

RECURSIVE SortByLen(_)
SortByLen(items) ==
    IF items = <<>> THEN <<>>
    ELSE InsertByLen(SortByLen(SubSeq(items, 1, Len(items) - 1)), items[Len(items)])

\* lines 200-203: the keys of by_id, in the order setdefault creates them
RECURSIVE ById_Keys(_)
ById_Keys(items) ==
    IF items = <<>> THEN <<>>
    ELSE LET init == ById_Keys(SubSeq(items, 1, Len(items) - 1))
             lid  == items[Len(items)][1]
         IN IF Contains(init, lid) THEN init ELSE Append(init, lid)

\* by_id[lid]: the items of law lid, in the order of all_items
RECURSIVE ById_Get(_, _)
ById_Get(items, lid) ==
    IF items = <<>> THEN <<>>
    ELSE (IF Head(items)[1] = lid THEN <<Head(items)>> ELSE <<>>)
         \o ById_Get(Tail(items), lid)

\* lines 205-210: one group (?P<LID_lid>...) per key of by_id, each the
\* "|"-join of by_id[lid], the groups "|"-joined in turn
RECURSIVE JoinGroups(_, _)
JoinGroups(keys, items) ==
    IF keys = <<>> THEN <<>>
    ELSE ById_Get(items, Head(keys)) \o JoinGroups(Tail(keys), items)

Alternatives(sorted) == JoinGroups(ById_Keys(sorted), sorted)

\* lines 198-210 on all_items
Assemble(all_items) ==
    IF all_items.raised THEN Raise ELSE Ret(Alternatives(SortByLen(all_items.val)))

\* the alternatives of LAW_NAMED, from left to right
build_alias_maps(aliases) == Assemble(AllItems(aliases))

-----------------------------------------------------------------------------
(* Step 1 of detect_links on a text and on its normalisation               *)

MaxTextLen == 4

\* a quote of each replacement, a dash, the hyphen, the blanks, a newline and
\* an ordinary letter
TextAlphabet == {171, 8242, 8212, CH_HYPHEN, CH_SPACE, CH_TAB, 10, CY_a}

Texts == UNION { [1..n -> TextAlphabet] : n \in 0..MaxTextLen }

InitNormalize ==
    /\ pc = "start"
    /\ text \in Texts
    /\ text_norm = None
    /\ text_norm2 = None
    /\ NoCall /\ NoAliases

\* detect_links(text, ...), line 487
NormalizeText ==
    /\ pc = "start"
    /\ text_norm' = normalize_text(text)
    /\ pc' = "once"
    /\ UNCHANGED <<text, text_norm2, call_vars, alias_vars>>

\* detect_links(normalize_text(text), ...), line 487
NormalizeAgain ==
    /\ pc = "once"
    /\ text_norm2' = normalize_text(text_norm)
    /\ pc' = "twice"
    /\ UNCHANGED <<text, text_norm, call_vars, alias_vars>>

NextNormalize == NormalizeText \/ NormalizeAgain

SpecNormalize == InitNormalize /\ [][NextNormalize]_vars

-----------------------------------------------------------------------------
(* A call of build_alias_maps on its own                                   *)

MaxLaws    == 2
MaxAliases == 2

\* "15", "17", "x", which int() refuses, and "-1", whose group name LID_-1
\* re.compile refuses
K_15 == <<49, 53>>
K_17 == <<49, 55>>
K_x  == <<120>>
K_m1 == <<CH_HYPHEN, 49>>
LawKeys == {K_15, K_17, K_x, K_m1}

\* "НК", "НК РФ", "Налоговый кодекс"
A_NK     == <<1053, 1050>>
A_NK_RF  == <<1053, 1050, 32, 1056, 1060>>
A_Kodeks == <<1053, 1072, 1083, 1086, 1075, 1086, 1074, 1099, 1081, 32,
              1082, 1086, 1076, 1077, 1082, 1089>>
AliasNames == {A_NK, A_NK_RF, A_Kodeks}

\* sequences of length 1..n of distinct elements of S
Distinct(S, n) ==
    { q \in UNION { [1..k -> S] : k \in 1..n } :
        \A i, j \in 1..Len(q) : q[i] = q[j] => i = j }

AliasLists == Distinct(AliasNames, MaxAliases)

\* the dictionaries of 1..MaxLaws laws
AliasDicts ==
    { d \in UNION { [1..k -> LawKeys \X AliasLists] : k \in 1..MaxLaws } :
        \A i, j \in 1..Len(d) : d[i][1] = d[j][1] => i = j }

InitAliases ==
    /\ pc = "call"
    /\ codex_aliases \in AliasDicts
    /\ LAW_NAMED = <<>>
    /\ calls = 0
    /\ builds = 0
    /\ NoCall /\ NoText

BuildAliasMaps ==
    /\ pc = "call"
    /\ \E r \in {build_alias_maps(codex_aliases)} :
        /\ LAW_NAMED' = r.val
        /\ pc' = IF r.raised THEN "raised" ELSE "returned"
    /\ UNCHANGED <<codex_aliases, calls, builds, call_vars, text_vars>>

NextAliases == BuildAliasMaps

SpecAliases == InitAliases /\ [][NextAliases]_vars

-----------------------------------------------------------------------------
(* The service: lifespan, the self tests and /detect                       *)
(* Followed here: the alias dictionary of app.state and the building of    *)
(* the patterns at the head of every detect_links call (lines 488-489).    *)

MaxCalls == 8

RUN_STARTUP_SELFTESTS == TRUE

\* len(tests) in _run_self_tests
NumSelfTests == 5

\* after lines 554-557 of lifespan: app.state.codex_aliases is loaded
InitService ==
    /\ pc = "startup"
    /\ codex_aliases \in AliasDicts
    /\ LAW_NAMED = <<>>
    /\ calls = 0
    /\ builds = 0
    /\ NoCall /\ NoText

\* compile_patterns(LAW_NAMED, LAW_NONCAP) raises re.error when LAW_NAMED has
\* a group of a negative lid: LID_-1 is no group name
compile_patterns_raises(law_named) ==
    \E i \in 1..Len(law_named) : law_named[i][1] < 0

\* lines 488-489 of a detect_links call on r, what build_alias_maps gives:
\* the call raises when build_alias_maps or compile_patterns does
Prepare(r) ==
    [raised |-> r.raised \/ compile_patterns_raises(r.val), val |-> r.val]

\* the head of a detect_links call, r being Prepare of what build_alias_maps
\* gives for the dictionary handed to the call: the patterns are built when
\* neither function raises
BuildPatterns(r) ==
    /\ calls' = calls + 1
    /\ builds' = IF r.raised THEN builds ELSE builds + 1
    /\ LAW_NAMED' = r.val

\* one turn of the loop of _run_self_tests: refs = detect_links(text, codex_aliases);
\* an exception of the call ends the tests, lifespan logs it and goes on
SelfTest ==
    /\ pc = "startup"
    /\ RUN_STARTUP_SELFTESTS
    /\ calls < NumSelfTests
    /\ \E r \in {Prepare(build_alias_maps(codex_aliases))} :
        /\ BuildPatterns(r)
        /\ pc' = IF r.raised THEN "serving" ELSE "startup"
    /\ UNCHANGED <<codex_aliases, call_vars, text_vars>>

\* lifespan reaches its yield: the self tests are off, or are through, or one
\* of them failed and lifespan logged the exception
StartServing ==
    /\ pc = "startup"
    /\ ~RUN_STARTUP_SELFTESTS \/ calls >= 1
    /\ pc' = "serving"
    /\ UNCHANGED <<alias_vars, call_vars, text_vars>>

\* POST /detect: detect_endpoint calls detect_links(text, codex_aliases); the
\* response, or the HTTP 500 for an exception, leaves the service as it was
DetectEndpoint ==
    /\ pc = "serving"
    /\ calls < MaxCalls
    /\ BuildPatterns(Prepare(build_alias_maps(codex_aliases)))
    /\ UNCHANGED <<pc, codex_aliases, call_vars, text_vars>>

\* the shutdown part of lifespan: del app.state.codex_aliases
Shutdown ==
    /\ pc = "serving"
    /\ pc' = "stopped"
    /\ codex_aliases' = <<>>
    /\ UNCHANGED <<LAW_NAMED, calls, builds, call_vars, text_vars>>

NextService == SelfTest \/ StartServing \/ DetectEndpoint \/ Shutdown

SpecService == InitService /\ [][NextService]_vars

-----------------------------------------------------------------------------
(* Claims                                                                  *)

Returned == pc = "returned"

\* the raw items the matcher produced for the tuple of a ParsedRef
FirstPos(items, ref) ==
    CHOOSE k \in 1..Len(items) :
        /\ ParsedRef(items[k]) = ref
        /\ \A j \in 1..(k - 1) : ParsedRef(items[j]) /= ref

\* C1: a recognition call never raises on a value fragment the grammar can
\* capture: detect_links returns a list.
C1_NeverRaises == pc /= "raised"

\* C2: in every ParsedRef returned, point and subpoint are each None or a
\* non-empty string.
C2_PointSubpointNonEmpty ==
    \A i \in 1..Len(result) : result[i].point /= <<>> /\ result[i].subpoint /= <<>>

\* two half-open intervals [start, end) share a position
SharePosition(s, t) == \E x \in s[1]..(s[2] - 1) : x \in t[1]..(t[2] - 1)

\* item a has no subpoint and some item of the same (law_id, article, point)
\* with a subpoint overlaps it
LessSpecific(a, items) ==
    /\ a.subpoint = None
    /\ \E j \in 1..Len(items) :
        /\ items[j].law_id = a.law_id
        /\ items[j].article = a.article
        /\ items[j].point = a.point
        /\ items[j].subpoint /= None
        /\ SharePosition(a.span, items[j].span)

\* C3: prune_less_specific drops exactly the items without subpoint that an
\* item with the same (law_id, article, point) and a subpoint overlaps, and
\* keeps the others in their order.
C3_PruneExact ==
    Returned =>
        /\ pruned = SelectSeq(raw_items, LAMBDA a : ~LessSpecific(a, raw_items))
        /\ \A i \in 1..Len(pruned) : ~LessSpecific(pruned[i], pruned)

\* C3 witness: one item without subpoint was dropped, and another one that only
\* touches an item with a subpoint of its group was kept.
C3_Witness ==
    /\ Returned
    /\ \E i \in 1..Len(raw_items) : LessSpecific(raw_items[i], raw_items)
    /\ \E i, j \in 1..Len(pruned) :
        /\ pruned[i].subpoint = None
        /\ pruned[j].subpoint /= None
        /\ GroupKey(pruned[i]) = GroupKey(pruned[j])
        /\ pruned[i].span[2] = pruned[j].span[1]

\* C4 as claimed: the result orders distinct tuples by their first production
\* by the matcher (their first raw item).
C4_OrderByFirstRawItem ==
    Returned =>
        \A i, j \in 1..Len(result) :
            i < j => FirstPos(raw_items, result[i]) < FirstPos(raw_items, result[j])

\* C4 as amended: the raw items come in (start, end) order of their spans, and
\* the result orders distinct tuples by their first raw item that survives
\* pruning.
C4_OrderByFirstKeptItem ==
    Returned =>
        /\ \A k, l \in 1..Len(raw_items) :
            k < l => \/ raw_items[k].span[1] < raw_items[l].span[1]
                     \/ /\ raw_items[k].span[1] = raw_items[l].span[1]
                        /\ raw_items[k].span[2] <= raw_items[l].span[2]
        /\ \A i \in 1..Len(result) : \E k \in 1..Len(pruned) : ParsedRef(pruned[k]) = result[i]
        /\ \A i, j \in 1..Len(result) :
            i < j => FirstPos(pruned, result[i]) < FirstPos(pruned, result[j])

\* C4 witness: a tuple whose first raw item was pruned is returned from a later
\* raw item, after a tuple that was first produced later.
C4_Witness ==
    /\ Returned
    /\ \E i, j \in 1..Len(result) :
        /\ i < j
        /\ FirstPos(raw_items, result[j]) < FirstPos(raw_items, result[i])
        /\ FirstPos(pruned, result[i]) < FirstPos(pruned, result[j])

\* C5: the returned list holds no two ParsedRefs equal on all four fields.
C5_NoDuplicates ==
    \A i, j \in 1..Len(result) : i /= j => result[i] /= result[j]

\* C5 witness: a call whose pruned raw items repeat a tuple.
C5_Witness ==
    /\ Returned
    /\ \E k, l \in 1..Len(pruned) : k < l /\ ParsedRef(pruned[k]) = ParsedRef(pruned[l])

\* a dot-separated tuple of decimal integers
IsDottedInt(x) ==
    LET ts == SplitChar(x, CH_DOT) IN
    \A i \in 1..Len(ts) : ts[i] /= <<>> /\ \A k \in 1..Len(ts[i]) : IsDigit(ts[i][k])

\* the two endpoints of a chunk that is one hyphenated piece, else <<>>
RangeEnds(c) ==
    LET ab == SplitChar(c, CH_HYPHEN) IN
    IF Len(ab) = 2 THEN <<Strip(ab[1]), Strip(ab[2])>> ELSE <<>>

\* the returned values denote the tuples prefix.lo, ..., prefix.hi, in order
IsLevelRun(vals, prefix, x, y) ==
    /\ Len(vals) = Max(x, y) - Min(x, y) + 1
    /\ \A k \in 1..Len(vals) :
        /\ IsDottedInt(vals[k])
        /\ parse_levels(vals[k]) = prefix \o <<Min(x, y) + k - 1>>

AllButLast(l) == SubSeq(l, 1, Len(l) - 1)
Last(l) == l[Len(l)]

\* C6: numeric range expansion with expand_hyphens=true.  'p.x-y' yields
\* p.min(x,y) .. p.max(x,y); 'x-y' yields the inclusive integer range; two
\* dotted endpoints of equal length that agree on all but the last component
\* yield the range over the last component; every other pair yields [a, b].
\* '1-3' yields 1, 2, 3 and '43.2-6' yields 43.2 .. 43.6.
C6_NumericRange ==
    (/\ pc /= "call"
     /\ expand_hyphens
     /\ RangeEnds(chunk) /= <<>>
     /\ IsDottedInt(RangeEnds(chunk)[1])
     /\ IsDottedInt(RangeEnds(chunk)[2])) =>
        LET a  == RangeEnds(chunk)[1]
            b  == RangeEnds(chunk)[2]
            la == parse_levels(a)
            lb == parse_levels(b)
        IN
        /\ pc = "returned"
        /\ IF Len(lb) = 1
           THEN IsLevelRun(values, AllButLast(la), Last(la), Last(lb))
           ELSE IF Len(la) = Len(lb) /\ AllButLast(la) = AllButLast(lb)
           THEN IsLevelRun(values, AllButLast(la), Last(la), Last(lb))
           ELSE values = <<a, b>>
        /\ chunk = <<49, 45, 51>> => values = << <<49>>, <<50>>, <<51>> >>
        /\ chunk = S_43_2_6 =>
            values = << <<52, 51, 46, 50>>, <<52, 51, 46, 51>>, <<52, 51, 46, 52>>, <<52, 51, 46, 53>>, <<52, 51, 46, 54>> >>

\* C6 witness: '43.2-6' was expanded as a point, and a reversed range and a
\* pair that is left alone are among the inputs
C6_Witness ==
    /\ pc = "returned"
    /\ expand_hyphens
    /\ chunk = S_43_2_6
    /\ Len(values) = 5
    /\ <<51, 45, 49>> \in Chunks
    /\ <<49, 45, 50, 46, 51>> \in Chunks

\* position of a lower-case letter in its alphabet: a..z, and а..я with ё
\* right after е
LetterPos(c) ==
    IF c \in LatLower THEN c - 96
    ELSE IF c = CY_io THEN 7
    ELSE IF c <= CY_ie THEN c - CY_a + 1
    ELSE c - CY_a + 2

SameAlphabet(c, d) == (c \in LatLower) = (d \in LatLower)

\* the letters of c's alphabet from position lo to position hi
LetterRun(c, lo, hi) ==
    [k \in 1..(hi - lo + 1) |->
        <<CHOOSE d \in LatLower \union CyrLower \union {CY_io} :
            SameAlphabet(c, d) /\ LetterPos(d) = lo + k - 1>>]

\* a single letter of the Latin or of the Cyrillic alphabet, of either case
IsAlphabetLetter(x) ==
    /\ Len(x) = 1
    /\ x[1] \in LatLower \union LatUpper \union CyrLower \union CyrUpper
                \union {CY_io, CY_IO}

\* C7: letter range expansion.  Two single letters of the same alphabet yield
\* the inclusive run of that alphabet between them (ё right after е); letters
\* of different alphabets yield [a, b].  'а-в' yields а, б, в; 'a-c' yields
\* a, b, c; 'д-ж' yields д, е, ё, ж.
C7_LetterRange ==
    (/\ pc /= "call"
     /\ expand_hyphens
     /\ RangeEnds(chunk) /= <<>>
     /\ IsAlphabetLetter(RangeEnds(chunk)[1])
     /\ IsAlphabetLetter(RangeEnds(chunk)[2])) =>
        LET a == RangeEnds(chunk)[1]
            b == RangeEnds(chunk)[2]
            x == Lower(a)[1]
            y == Lower(b)[1]
        IN
        /\ pc = "returned"
        /\ IF SameAlphabet(x, y)
           THEN values = LetterRun(x, Min(LetterPos(x), LetterPos(y)),
                                      Max(LetterPos(x), LetterPos(y)))
           ELSE values = <<a, b>>
        /\ chunk = <<1072, 45, 1074>> => values = << <<1072>>, <<1073>>, <<1074>> >>
        /\ chunk = <<97, 45, 99>> => values = << <<97>>, <<98>>, <<99>> >>
        /\ chunk = <<1076, 45, 1078>> => values = << <<1076>>, <<1077>>, <<1105>>, <<1078>> >>

\* the values of '43.2-6' expanded
Expanded43 == << <<52, 51, 46, 50>>, <<52, 51, 46, 51>>, <<52, 51, 46, 52>>, <<52, 51, 46, 53>>, <<52, 51, 46, 54>> >>

SameCapture(m, n) ==
    /\ m.st = n.st /\ m.en = n.en /\ m.law_id = n.law_id
    /\ m.article_vals = n.article_vals
    /\ m.point_vals = n.point_vals
    /\ m.subp_vals = n.subp_vals

\* C8: article values are never expanded across hyphens.  A match whose article
\* fragment is '43.2-6', with no point and no subpoint, produces exactly one
\* tuple (law_id, '43.2-6', None, None); the same fragment as a point is
\* expanded.
C8_ArticlesNotExpanded ==
    Returned =>
        /\ \A k \in 1..Len(raw_items) :
            \E i \in 1..Len(matches) : raw_items[k].article = matches[i].article_vals
        /\ \A i \in 1..Len(matches) :
            LET m == matches[i] IN
            /\ (m.article_vals = S_43_2_6 /\ m.point_vals = None /\ m.subp_vals = None) =>
                LET bare == [law_id |-> m.law_id, article |-> S_43_2_6, point |-> None,
                             subpoint |-> None, span |-> <<m.st, m.en>>]
                IN /\ Cardinality({k \in 1..Len(raw_items) : raw_items[k] = bare})
                        = Cardinality({j \in 1..Len(matches) : SameCapture(matches[j], m)})
                   /\ Contains(result, ParsedRef(bare))
            /\ m.point_vals = S_43_2_6 =>
                /\ \A v \in 1..Len(Expanded43) :
                    \E k \in 1..Len(raw_items) :
                        /\ raw_items[k].span = <<m.st, m.en>>
                        /\ raw_items[k].law_id = m.law_id
                        /\ raw_items[k].point = Expanded43[v]
                /\ \A k \in 1..Len(raw_items) : raw_items[k].point /= S_43_2_6

\* C8 witness: a call returned for one match of article '43.2-6' alone and one
\* match with '43.2-6' as its point
C8_Witness ==
    /\ Returned
    /\ \E i, j \in 1..Len(matches) :
        /\ matches[i].article_vals = S_43_2_6
        /\ matches[i].point_vals = None
        /\ matches[j].point_vals = S_43_2_6
    /\ \E k \in 1..Len(result) :
        result[k].article = S_43_2_6 /\ result[k].point = None /\ result[k].subpoint = None

Present(f) == f /= None /\ f /= <<>>

\* C9: for a match, detect_links emits exactly the Cartesian product articles x
\* points x subpoints with the match's span; an absent fragment contributes the
\* single element None and every present fragment a non-empty list of values.
C9_CartesianProduct ==
    (Returned /\ Len(matches) = 1) =>
        LET m == matches[1]
            A == {raw_items[k].article : k \in 1..Len(raw_items)}
            P == {raw_items[k].point : k \in 1..Len(raw_items)}
            S == {raw_items[k].subpoint : k \in 1..Len(raw_items)}
        IN
        /\ Len(raw_items) = Cardinality(A) * Cardinality(P) * Cardinality(S)
        /\ \A a \in A, p \in P, s \in S :
            \E k \in 1..Len(raw_items) :
                raw_items[k] = [law_id |-> m.law_id, article |-> a, point |-> p,
                                subpoint |-> s, span |-> <<m.st, m.en>>]
        /\ ~Present(m.article_vals) => A = {None}
        /\ ~Present(m.point_vals) => P = {None}
        /\ ~Present(m.subp_vals) => S = {None}
        /\ Present(m.article_vals) => None \notin A
        /\ Present(m.point_vals) => None \notin P
        /\ Present(m.subp_vals) => None \notin S

\* the matches of "в подпунктах а, б и в пункта 3.345, 23 в статье 66 НК РФ":
\* patt_after with all three fragments, and an overlapping patt_mid without the
\* subpoint
IsScenario5(ms) ==
    /\ Len(ms) = 2
    /\ \E i, j \in 1..2 :
        /\ ms[i].patt = "after" /\ ms[j].patt = "mid"
        /\ ms[i].law_id = LAW_NK /\ ms[j].law_id = LAW_NK
        /\ ms[i].article_vals = S_66 /\ ms[j].article_vals = S_66
        /\ ms[i].point_vals = S_pts /\ ms[j].point_vals = S_pts
        /\ ms[i].subp_vals = S_abv /\ ms[j].subp_vals = None
        /\ SharePosition(<<ms[i].st, ms[i].en>>, <<ms[j].st, ms[j].en>>)

Tuple(l, a, p, s) == [law_id |-> l, article |-> a, point |-> p, subpoint |-> s]

\* C10: for those two matches the result is exactly the six tuples
\* {66} x {3.345, 23} x {а, б, в} of the law, and the bare tuples
\* (66, 3.345, None) and (66, 23, None) are absent.
C10_Scenario5 ==
    (Returned /\ IsScenario5(matches)) =>
        /\ result = << Tuple(LAW_NK, S_66, S_3_345, <<1072>>), Tuple(LAW_NK, S_66, S_3_345, <<1073>>),
                       Tuple(LAW_NK, S_66, S_3_345, <<1074>>), Tuple(LAW_NK, S_66, S_23, <<1072>>),
                       Tuple(LAW_NK, S_66, S_23, <<1073>>), Tuple(LAW_NK, S_66, S_23, <<1074>>) >>
        /\ ~Contains(result, Tuple(LAW_NK, S_66, S_3_345, None))
        /\ ~Contains(result, Tuple(LAW_NK, S_66, S_23, None))

\* C10 witness: the call returned for the two matches, the patt_mid match lying
\* inside the patt_after match, and the bare tuples were among the raw items
C10_Witness ==
    /\ Returned
    /\ IsScenario5(matches)
    /\ matches[1].st < matches[2].st
    /\ matches[1].en = matches[2].en
    /\ Len(raw_items) = 8
    /\ Len(result) = 6

-----------------------------------------------------------------------------
\* C11: normalising a normalised text changes nothing, so the call
\* detect_links(normalize_text(T), A) works on the same text_norm as the call
\* detect_links(T, A); text_norm is all that the rest of detect_links reads
\* of the text.
C11_NormalizeIdempotent == pc = "twice" => text_norm2 = text_norm

\* a text with a quote, a dash and a run of blanks, normalised twice
C11_Witness ==
    /\ pc = "twice"
    /\ \E i \in 1..Len(text) : text[i] \in {QUOTE_CHARS[k][1] : k \in 1..Len(QUOTE_CHARS)}
    /\ \E i \in 1..Len(text) : text[i] = 8212
    /\ \E i \in 1..(Len(text) - 1) : IsBlank(text[i]) /\ IsBlank(text[i + 1])
    /\ text_norm /= text

-----------------------------------------------------------------------------
\* C12: in LAW_NAMED the pattern of a longer alias stands before the pattern
\* of every shorter alias, whichever laws the two aliases name.
C12_LongerAliasFirst ==
    pc = "returned" =>
        \A i, j \in 1..Len(LAW_NAMED) :
            Len(LAW_NAMED[i][2]) > Len(LAW_NAMED[j][2]) => i < j

-----------------------------------------------------------------------------
\* C13: over any sequence of recognition calls the patterns and the group
\* map are built once: no call after the first builds them again.
C13_BuiltOnce == builds <= 1

=============================================================================
